---- MODULE Spec2Model ----
(***************************************************************************)
(* A model of trove's clonable arena allocator (src/src/lib.rs): the       *)
(* bucketed storage ArenaInner, the RefCell borrow flag of every slot, the *)
(* per-arena map from generation id to shared storage, and the operations  *)
(* new, clone (fork), merge, append, get/try_get, get_mut/try_get_mut,     *)
(* writes through a mutable guard and guard drop.                          *)
(***************************************************************************)
EXTENDS Integers, Sequences, FiniteSets, Bags, TLC

\* ---------------------------------------------------------------- constants

BASE == 32
NUM_ALLOCATIONS == 32
USIZE_BITS == 64

\* ------------------------------------------------------------------- bounds

MaxArenas == 3
MaxIdx == 2
MaxGuards == 2
MaxVal == 1
MaxSlots == 2
MaxLen == 100
MaxRow == 20
MaxIds == 5

Values == 0 .. MaxVal
ArenaHandles == 1 .. MaxArenas
IdxVars == 1 .. MaxIdx

VARIABLES
    ids,      \* the thread-local IDS counter
    inners,   \* heap of Rc<ArenaInner<T>>: a handle is a position in this sequence
    arenas,   \* the Arena values the program holds, by handle
    idxs,     \* the caller's ArenaIdx variables
    guards,   \* the bag of live ArenaRef / ArenaRefMut guards the caller holds
    last,     \* the last call, when it failed: which call, and how it ended
    shadow,   \* history: for every minted index, the value last stored under it
    forks,    \* history: the forks made so far (who, whom, IDS before the fork)
    rcs       \* for every Rc<ArenaInner<T>>: its strong count, and the times its values were dropped

vars == <<ids, inners, arenas, idxs, guards, last, shadow, forks, rcs>>

\* ------------------------------------------------------------ plain values

NoIdx == [arena |-> -1, offset |-> -1]
EmptyMap == [k \in {} |-> 0]
NoArena == [live |-> FALSE, id |-> -1, arenas |-> EmptyMap]
DroppedArena == [live |-> FALSE, id |-> -2, arenas |-> EmptyMap]
NoRef == [inner |-> 0, row |-> 0, col |-> 0]

Max(a, b) == IF a >= b THEN a ELSE b

RECURSIVE Pow2(_)
Pow2(n) == IF n <= 0 THEN 1 ELSE 2 * Pow2(n - 1)

\* usize::leading_zeros of a 64-bit word
RECURSIVE BitLen(_)
BitLen(j) == IF j <= 0 THEN 0 ELSE 1 + BitLen(j \div 2)

leading_zeros(j) == USIZE_BITS - BitLen(j)

\* ----------------------------------------------------- RefCell<T> (one slot)

\* borrow: 0 unused, n > 0 shared borrows, -1 mutably borrowed
RefCell_new(t) == [value |-> t, borrow |-> 0]

try_borrow(cell) ==
    IF cell.borrow < 0
    THEN [ok |-> FALSE, cell |-> cell]
    ELSE [ok |-> TRUE, cell |-> [cell EXCEPT !.borrow = @ + 1]]

try_borrow_mut(cell) ==
    IF cell.borrow # 0
    THEN [ok |-> FALSE, cell |-> cell]
    ELSE [ok |-> TRUE, cell |-> [cell EXCEPT !.borrow = -1]]

\* Drop of a Ref / RefMut
release(cell, kind) ==
    IF kind = "excl"
    THEN [cell EXCEPT !.borrow = 0]
    ELSE [cell EXCEPT !.borrow = @ - 1]

\* ------------------------------------------------------------- Vec<RefCell>

Vec_new == [cap |-> 0, buf |-> <<>>]
Vec_with_capacity(n) == [cap |-> n, buf |-> <<>>]

\* push keeps the buffer while there is room and reallocates a larger one
\* when there is none
Vec_push(v, x) ==
    [cap |-> IF Len(v.buf) < v.cap THEN v.cap ELSE Max(2 * v.cap, 4),
     buf |-> Append(v.buf, x)]

\* -------------------------------------------------------------- ArenaInner

ArenaInner_default ==
    [rows |-> [r \in 0 .. NUM_ALLOCATIONS - 1 |-> Vec_new], len |-> 0]

\* (row, col) of the slot with the linear offset i
index_row(j) == USIZE_BITS - leading_zeros(j) - 1

index_in(i, row) == <<row, i - (Pow2(row) - 1) * BASE>>

\* index taking the row of the offset after i
index_late(i) == index_in(i, index_row((i + 1) \div BASE + 1))

index(i) == index_in(i, index_row(i \div BASE + 1))

\* rows[row][col] exists (both indexings are bounds-checked)
InRows(inner, rc) ==
    /\ rc[1] \in DOMAIN inner.rows
    /\ rc[2] + 1 \in DOMAIN inner.rows[rc[1]].buf

Cell(inner, row, col) == inner.rows[row].buf[col + 1]

SetCell(inner, row, col, cell) ==
    [inner EXCEPT !.rows[row].buf[col + 1] = cell]

\* the results of ArenaInner::try_get / try_get_mut: a panic, an error value,
\* or a guard on the slot at rc, its borrow flag set to b.cell.borrow
Inner_failed(inner, rc, res, why) ==
    [res |-> res, why |-> why, inner |-> inner, row |-> rc[1], col |-> rc[2],
     value |-> -1]

Inner_borrowed(inner, rc, b, why) ==
    IF ~b.ok THEN Inner_failed(inner, rc, "err", why)
    ELSE [res |-> "ok", why |-> "", row |-> rc[1], col |-> rc[2],
          inner |-> SetCell(inner, rc[1], rc[2], b.cell), value |-> b.cell.value]

\* Inner_try_get_at handing the value out whatever the borrow flag says
Inner_try_get_at_unchecked(inner, offset, rc) ==
    IF offset >= inner.len
    THEN Inner_failed(inner, rc, "panic", "Index out of bounds")
    ELSE IF ~InRows(inner, rc)
    THEN Inner_failed(inner, rc, "panic", "slice index")
    ELSE Inner_borrowed(inner, rc, [ok |-> TRUE, cell |-> Cell(inner, rc[1], rc[2])],
                        "BorrowError")

Inner_try_get_at(inner, offset, rc) ==
    IF offset >= inner.len
    THEN Inner_failed(inner, rc, "panic", "Index out of bounds")
    ELSE IF ~InRows(inner, rc)
    THEN Inner_failed(inner, rc, "panic", "slice index")
    ELSE Inner_borrowed(inner, rc, try_borrow(Cell(inner, rc[1], rc[2])),
                        "BorrowError")

Inner_try_get(inner, offset) == Inner_try_get_at(inner, offset, index(offset))

\* Inner_try_get_mut_at taking a shared borrow where the code takes an exclusive one
Inner_try_get_mut_at_shared(inner, offset, rc) == Inner_try_get_at(inner, offset, rc)

Inner_try_get_mut_at(inner, offset, rc) ==
    IF offset >= inner.len
    THEN Inner_failed(inner, rc, "panic", "Index out of bounds")
    ELSE IF ~InRows(inner, rc)
    THEN Inner_failed(inner, rc, "panic", "slice index")
    ELSE Inner_borrowed(inner, rc, try_borrow_mut(Cell(inner, rc[1], rc[2])),
                        "BorrowMutError")

Inner_try_get_mut(inner, offset) ==
    Inner_try_get_mut_at(inner, offset, index(offset))

\* append: the bucket is allocated when its first slot is appended ...
\* Inner_allocate giving every row the capacity of row 0
Inner_allocate_small(inner, rc) ==
    IF rc[2] = 0 THEN [inner EXCEPT !.rows[rc[1]] = Vec_with_capacity(BASE)] ELSE inner

\* Inner_allocate replacing the row at every append, not at column 0 only
Inner_allocate_always(inner, rc) ==
    [inner EXCEPT !.rows[rc[1]] = Vec_with_capacity(BASE * Pow2(rc[1]))]

Inner_allocate(inner, rc) ==
    IF rc[2] = 0
    THEN [inner EXCEPT !.rows[rc[1]] = Vec_with_capacity(BASE * Pow2(rc[1]))]
    ELSE inner

\* Inner_push returning an index of generation 0 whatever the id
Inner_push_unstamped(inner, row, id, t) ==
    [res |-> "ok", why |-> "",
     inner |-> [inner EXCEPT !.rows[row] = Vec_push(@, RefCell_new(t)),
                             !.len = @ + 1],
     idx |-> [arena |-> 0, offset |-> inner.len]]

\* ... the slot is pushed and len incremented; the index is (id, the old len)
Inner_push(inner, row, id, t) ==
    [res |-> "ok", why |-> "",
     inner |-> [inner EXCEPT !.rows[row] = Vec_push(@, RefCell_new(t)),
                             !.len = @ + 1],
     idx |-> [arena |-> id, offset |-> inner.len]]

Inner_append_at(inner, rc, id, t) ==
    IF rc[1] > 31
    THEN [res |-> "panic", why |-> "Arena out of space!", inner |-> inner,
          idx |-> NoIdx]
    ELSE Inner_push(Inner_allocate(inner, rc), rc[1], id, t)

Inner_append(inner, id, t) == Inner_append_at(inner, index(inner.len), id, t)

\* the storage after n more appends of the value t to the storage inner: the first
\* half of them, then the others (each storage is evaluated before it is appended to)
RECURSIVE AppendMany(_, _, _, _)
AppendMany(inner, n, id, t) ==
    IF n = 0 THEN inner
    ELSE IF n = 1 THEN Inner_append(inner, id, t).inner
    ELSE CHOOSE r \in {AppendMany(half, n - n \div 2, id, t) :
                           half \in {AppendMany(inner, n \div 2, id, t)}} : TRUE

\* the storage after n appends of the value t to a new storage of generation id
Prefilled(n, id, t) == AppendMany(ArenaInner_default, n, id, t)

\* ------------------------------------------------------ VecMap<Rc<ArenaInner>>

VecMap_insert(m, k, v) ==
    [x \in DOMAIN m \cup {k} |-> IF x = k THEN v ELSE m[x]]

\* extend: every entry of src is inserted into m, replacing an entry of the same key
VecMap_extend(m, src) ==
    [x \in DOMAIN m \cup DOMAIN src |-> IF x \in DOMAIN src THEN src[x] ELSE m[x]]

\* ------------------------------------------------------------------- Arena

\* new_id returning the counter without incrementing it
new_id_stuck(n) == [id |-> n, ids |-> n]

new_id(n) == [id |-> n, ids |-> n + 1]

\* Arena::default on the heap h with the counter at n
Arena_default_with(i, heap) ==
    [arena |-> [live |-> TRUE, id |-> i.id,
                arenas |-> VecMap_insert(EmptyMap, i.id, Len(heap))],
     ids |-> i.ids, heap |-> heap]

Arena_default(n, h) == Arena_default_with(new_id(n), Append(h, ArenaInner_default))

\* Arena::clone of self: self is given a new current generation too, and the
\* clone's map is a copy of the map of self with both new generations in it
\* Arena_clone_with starting both maps anew, with the two new generations only
Arena_clone_with_forgets(self, ia, ib, h) ==
    [self |-> [live |-> TRUE, id |-> ia.id,
               arenas |-> VecMap_insert(VecMap_insert(EmptyMap, ia.id, Len(h) + 1),
                                        ib.id, Len(h) + 2)],
     clone |-> [live |-> TRUE, id |-> ib.id,
                arenas |-> VecMap_insert(VecMap_insert(EmptyMap, ia.id, Len(h) + 1),
                                         ib.id, Len(h) + 2)],
     ids |-> ib.ids,
     heap |-> h \o <<ArenaInner_default, ArenaInner_default>>]

Arena_clone_with(self, ia, ib, h) ==
    [self |-> [live |-> TRUE, id |-> ia.id,
               arenas |-> VecMap_insert(VecMap_insert(self.arenas, ia.id, Len(h) + 1),
                                        ib.id, Len(h) + 2)],
     clone |-> [live |-> TRUE, id |-> ib.id,
                arenas |-> VecMap_insert(VecMap_insert(self.arenas, ia.id, Len(h) + 1),
                                         ib.id, Len(h) + 2)],
     ids |-> ib.ids,
     heap |-> h \o <<ArenaInner_default, ArenaInner_default>>]

Arena_clone(self, n, h) ==
    Arena_clone_with(self, new_id(n), new_id(new_id(n).ids), h)

Arena_merge_with(new_arenas, i) ==
    [arena |-> [live |-> TRUE, id |-> i.id, arenas |-> new_arenas], ids |-> i.ids]

\* Arena_merge keeping the entries of b only
Arena_merge_only_b(a, b, n) ==
    Arena_merge_with(VecMap_extend(EmptyMap, b.arenas), new_id(n))

Arena_merge(a, b, n) ==
    Arena_merge_with(VecMap_extend(VecMap_extend(EmptyMap, a.arenas), b.arenas),
                     new_id(n))

\* the result of Arena::try_get and of the direct branch of Arena::try_get_mut,
\* from the result r of the storage rc
Arena_got(h, rc, idx, r) ==
    [res |-> r.res, why |-> r.why, heap |-> [h EXCEPT ![rc] = r.inner], idx |-> idx,
     ref |-> [inner |-> rc, row |-> r.row, col |-> r.col], value |-> r.value,
     calls |-> 1]

Arena_failed(h, idx, res, why) ==
    [res |-> res, why |-> why, heap |-> h, idx |-> idx, ref |-> NoRef,
     value |-> -1, calls |-> 1]

Arena_try_get(h, self, idx) ==
    IF idx.arena \notin DOMAIN self.arenas
    THEN Arena_failed(h, idx, "panic", "Invalid arena_idx")
    ELSE Arena_got(h, self.arenas[idx.arena], idx,
                   Inner_try_get(h[self.arenas[idx.arena]], idx.offset))

Arena_appended(h, rc, r) ==
    [res |-> r.res, why |-> r.why, heap |-> [h EXCEPT ![rc] = r.inner],
     idx |-> r.idx]

Arena_append(h, self, t) ==
    IF self.id \notin DOMAIN self.arenas
    THEN [res |-> "panic", why |-> "Invalid arena_idx", heap |-> h, idx |-> NoIdx]
    ELSE Arena_appended(h, self.arenas[self.id],
                        Inner_append(h[self.arenas[self.id]], self.id, t))

\* the end of a guard's life: the slot it refers to is released
drop_ref(h, ref, kind) ==
    [h EXCEPT ![ref.inner] =
        SetCell(@, ref.row, ref.col, release(Cell(@, ref.row, ref.col), kind))]

MaxDepth == 3

\* try_get_mut; idx is the caller's index, returned as the call leaves it;
\* calls counts the invocations of try_get_mut, depth bounds the recursion
RECURSIVE Arena_try_get_mut(_, _, _, _)

\* the direct branch: the index is of the current generation
try_get_mut_direct(h, self, idx) ==
    IF idx.arena \notin DOMAIN self.arenas
    THEN Arena_failed(h, idx, "panic", "Invalid arena_idx")
    ELSE Arena_got(h, self.arenas[idx.arena], idx,
                   Inner_try_get_mut(h[self.arenas[idx.arena]], idx.offset))

\* the other branch: ... the caller's index is overwritten and try_get_mut called again
try_get_mut_again(self, ap, depth) ==
    IF depth = 0
    THEN [Arena_failed(ap.heap, ap.idx, "diverges", "") EXCEPT !.calls = 1]
    ELSE [Arena_try_get_mut(ap.heap, self, ap.idx, depth - 1) EXCEPT !.calls = @ + 1]

\* try_get_mut_append leaving the caller's index as it was
try_get_mut_append_keeps_idx(self, idx0, ap, depth) ==
    IF ap.res # "ok" THEN Arena_failed(ap.heap, idx0, ap.res, ap.why)
    ELSE [try_get_mut_again(self, ap, depth) EXCEPT !.idx = idx0]

\* try_get_mut_append overwriting the caller's index before append has returned
try_get_mut_append_early(self, idx0, ap, depth) ==
    IF ap.res # "ok" THEN Arena_failed(ap.heap, ap.idx, ap.res, ap.why)
    ELSE try_get_mut_again(self, ap, depth)

\* ... the clone is appended to the current generation; the caller's index
\* (idx0 at the call) is overwritten when append has returned ...
try_get_mut_append(self, idx0, ap, depth) ==
    IF ap.res # "ok" THEN Arena_failed(ap.heap, idx0, ap.res, ap.why)
    ELSE try_get_mut_again(self, ap, depth)

\* the value is read under a shared borrow, which ends with the statement ...
try_get_mut_clone(self, idx0, g, depth) ==
    IF g.res # "ok" THEN Arena_failed(g.heap, idx0, g.res, g.why)
    ELSE try_get_mut_append(self, idx0,
                            Arena_append(drop_ref(g.heap, g.ref, "shared"), self, g.value),
                            depth)

\* Arena_try_get_mut copying the value whatever generation the index is of
Arena_try_get_mut_copies(h, self, idx, depth) ==
    try_get_mut_clone(self, idx, Arena_try_get(h, self, idx), depth)

\* Arena_try_get_mut borrowing in place whatever generation the index is of
Arena_try_get_mut_in_place(h, self, idx, depth) == try_get_mut_direct(h, self, idx)

Arena_try_get_mut(h, self, idx, depth) ==
    IF idx.arena = self.id
    THEN try_get_mut_direct(h, self, idx)
    ELSE try_get_mut_clone(self, idx, Arena_try_get(h, self, idx), depth)

\* ---------------------------------------------------------------------- Rc

\* Rc::new, Rc::clone and the drop of an Rc<ArenaInner<T>>: the last drop drops
\* the ArenaInner, its rows and with them every value
Rc_new == [strong |-> 1, dropped |-> 0]
Rc_clone(rc) == [rc EXCEPT !.strong = @ + 1]
Rc_drop(rc) ==
    IF rc.strong = 1 THEN [strong |-> 0, dropped |-> rc.dropped + 1]
    ELSE [rc EXCEPT !.strong = @ - 1]

\* the storage s is a value of the map m
Held(m, s) == \E k \in DOMAIN m : m[k] = s

\* Arena::default: map.insert(id, Default::default())
Rcs_default(r) == Append(r, Rc_new)

\* Arena::clone: two Rc::new are inserted, and arenas.clone() clones every Rc of
\* the map (m: the map of the clone)
Rcs_clone(r, m) ==
    [s \in DOMAIN r \cup {Len(r) + 1, Len(r) + 2} |->
        IF s \in DOMAIN r
        THEN IF Held(m, s) THEN Rc_clone(r[s]) ELSE r[s]
        ELSE IF Held(m, s) THEN Rc_clone(Rc_new) ELSE Rc_new]

\* Arena::merge keeping the Rc of a and b without cloning them
Rcs_merge_uncounted(r, ma, mb) == r

\* Arena::merge: every Rc of a, then every Rc of b, is cloned into the new map;
\* extend drops the clone of a's Rc that an entry of b replaces
Rcs_merge(r, ma, mb) ==
    [s \in DOMAIN r |->
        IF Held(ma, s) /\ Held(mb, s) THEN Rc_drop(Rc_clone(Rc_clone(r[s])))
        ELSE IF Held(ma, s) \/ Held(mb, s) THEN Rc_clone(r[s])
        ELSE r[s]]

\* the drop of an Arena drops its map, and with it every Rc of the map
Rcs_drop(r, m) == [s \in DOMAIN r |-> IF Held(m, s) THEN Rc_drop(r[s]) ELSE r[s]]

\* ------------------------------------------------------------------ state

NoCall == [op |-> "none", arena |-> 0, idx |-> NoIdx, res |-> "ok", why |-> ""]

\* what is kept of a call: nothing when it succeeded
Call(op, a, idx, res, why) ==
    IF res = "ok" THEN NoCall
    ELSE [op |-> op, arena |-> a, idx |-> idx, res |-> res, why |-> why]

\* a panic ends the program
Running == last.res # "panic"

Live == {a \in ArenaHandles : arenas[a].live}
\* a handle is used once: that of a dropped arena is not free
FreeArenas == {a \in ArenaHandles : arenas[a] = NoArena}
NextArena == CHOOSE a \in FreeArenas : \A b \in FreeArenas : a <= b

\* a live guard: the slot it refers to, the arena and the index it was obtained
\* through (from: the caller's index before the call, idx: after it), and the
\* value of IDS when it was obtained
Guards == BagToSet(guards)
Guard(kind, ref, a, from, idx) ==
    [kind |-> kind, ref |-> ref, via |-> a, from |-> from, idx |-> idx, born |-> ids]

Minted == DOMAIN shadow

\* the slots appended so far, over all storages
RECURSIVE SumLen(_, _)
SumLen(h, n) == IF n = 0 THEN 0 ELSE h[n].len + SumLen(h, n - 1)

\* the bound on the slots the caller can have an index of: MaxSlots
CanAppend ==
    \/ SumLen(inners, Len(inners)) < MaxSlots
    \/ inners[1].len >= BASE /\ SumLen(inners, Len(inners)) < BASE - 1 + MaxSlots

\* after Arena::new() and n appends of 0, the caller keeping the last index
InitFrom(n, d) ==
    /\ ids = d.ids
    /\ inners = <<Prefilled(n, d.arena.id, 0)>>
    /\ arenas = [a \in ArenaHandles |-> IF a = 1 THEN d.arena ELSE NoArena]
    /\ idxs = [i \in IdxVars |->
                  IF i = 1 /\ n > 0 THEN [arena |-> d.arena.id, offset |-> n - 1]
                  ELSE NoIdx]
    /\ guards = EmptyBag
    /\ last = NoCall
    /\ shadow = [x \in {[arena |-> d.arena.id, offset |-> k] : k \in 0 .. n - 1} |-> 0]
    /\ forks = {}
    /\ rcs = <<Rc_new>>

InitWith(n) == InitFrom(n, Arena_default(0, <<>>))

\* after Arena::new()
Init == InitWith(0)

\* after Arena::new() and BASE appends of 0, which fill bucket 0
InitBucket == InitWith(BASE)

\* the unwinding of a panic destroys every guard and every arena
Panicked(call) ==
    /\ last' = call
    /\ inners' = <<>>
    /\ arenas' = [a \in ArenaHandles |-> NoArena]
    /\ idxs' = [i \in IdxVars |-> NoIdx]
    /\ guards' = EmptyBag
    /\ shadow' = [x \in {} |-> 0]
    /\ forks' = {}
    /\ rcs' = <<>>
    /\ UNCHANGED ids

\* ---------------------------------------------------------------- actions

\* Arena::new(); the new arena takes the next free handle
NewDone(d) ==
    /\ rcs' = Rcs_default(rcs)
    /\ ids' = d.ids
    /\ inners' = d.heap
    /\ arenas' = [arenas EXCEPT ![NextArena] = d.arena]

New ==
    /\ Running
    /\ FreeArenas # {}
    /\ ids + 1 <= MaxIds
    /\ NewDone(Arena_default(ids, inners))
    /\ last' = NoCall
    /\ UNCHANGED <<idxs, guards, shadow, forks>>

\* let b = a.clone(); b takes the next free handle
CloneDone(a, c) ==
    /\ rcs' = Rcs_clone(rcs, c.clone.arenas)
    /\ ids' = c.ids
    /\ inners' = c.heap
    /\ arenas' = [arenas EXCEPT ![a] = c.self, ![NextArena] = c.clone]

Clone(a) ==
    /\ Running
    /\ arenas[a].live
    /\ FreeArenas # {}
    /\ ids + 2 <= MaxIds
    /\ CloneDone(a, Arena_clone(arenas[a], ids, inners))
    /\ forks' = forks \cup {[a |-> a, b |-> NextArena, at |-> ids]}
    /\ last' = NoCall
    /\ UNCHANGED <<idxs, guards, shadow>>

\* let c = Arena::merge(&a, &b); c takes the next free handle
MergeDone(m) ==
    /\ ids' = m.ids
    /\ arenas' = [arenas EXCEPT ![NextArena] = m.arena]

Merge(a, b) ==
    /\ Running
    /\ arenas[a].live
    /\ arenas[b].live
    /\ FreeArenas # {}
    /\ ids + 1 <= MaxIds
    /\ MergeDone(Arena_merge(arenas[a], arenas[b], ids))
    /\ rcs' = Rcs_merge(rcs, arenas[a].arenas, arenas[b].arenas)
    /\ last' = NoCall
    /\ UNCHANGED <<inners, idxs, guards, shadow, forks>>

\* idxs[i] = a.append(v)
AppendDone(a, v, i, r) ==
    IF r.res = "panic" THEN Panicked(Call("append", a, NoIdx, r.res, r.why))
    ELSE /\ last' = NoCall
         /\ inners' = r.heap
         /\ idxs' = [idxs EXCEPT ![i] = r.idx]
         /\ shadow' = [x \in Minted \cup {r.idx} |-> IF x = r.idx THEN v ELSE shadow[x]]
         /\ UNCHANGED <<ids, arenas, guards, forks, rcs>>

AppendValue(a, v, i) ==
    /\ Running
    /\ arenas[a].live
    /\ CanAppend
    /\ AppendDone(a, v, i, Arena_append(inners, arenas[a], v))

\* an eager entry point unwraps the result: an error value becomes a panic
Unwrapped(eager, res) == IF eager /\ res = "err" THEN "panic" ELSE res

\* a.get(&idxs[i]) when eager, a.try_get(&idxs[i]) otherwise; the guard is kept
GetDone(a, i, r, call) ==
    IF call.res = "panic" THEN Panicked(call)
    ELSE /\ r.res = "ok" => BagCardinality(guards) < MaxGuards
         /\ last' = call
         /\ inners' = r.heap
         /\ guards' = IF r.res = "ok"
                      THEN guards (+) SetToBag({Guard("shared", r.ref, a, idxs[i], r.idx)})
                      ELSE guards
         /\ UNCHANGED <<ids, arenas, idxs, shadow, forks, rcs>>

GetResult(op, eager, a, i, r) ==
    GetDone(a, i, r, Call(op, a, idxs[i], Unwrapped(eager, r.res), r.why))

GetOp(op, eager, a, i) ==
    /\ Running
    /\ arenas[a].live
    /\ idxs[i] # NoIdx
    /\ GetResult(op, eager, a, i, Arena_try_get(inners, arenas[a], idxs[i]))

Get(a, i) == GetOp("get", TRUE, a, i)

TryGet(a, i) == GetOp("try_get", FALSE, a, i)

\* a.get_mut(&mut idxs[i]) when eager, a.try_get_mut(&mut idxs[i]) otherwise
GetMutDone(a, i, r, call) ==
    IF call.res = "panic" THEN Panicked(call)
    ELSE /\ r.res = "ok" => BagCardinality(guards) < MaxGuards
         /\ last' = call
         /\ inners' = r.heap
         /\ idxs' = [idxs EXCEPT ![i] = r.idx]
         /\ shadow' = [x \in Minted \cup {r.idx} |->
                          IF x \in Minted THEN shadow[x] ELSE shadow[idxs[i]]]
         /\ guards' = IF r.res = "ok"
                      THEN guards (+) SetToBag({Guard("excl", r.ref, a, idxs[i], r.idx)})
                      ELSE guards
         /\ UNCHANGED <<ids, arenas, forks, rcs>>

GetMutResult(op, eager, a, i, r) ==
    GetMutDone(a, i, r, Call(op, a, idxs[i], Unwrapped(eager, r.res), r.why))

GetMutOp(op, eager, a, i) ==
    /\ Running
    /\ arenas[a].live
    /\ idxs[i] # NoIdx
    /\ idxs[i].arena # arenas[a].id => CanAppend
    /\ GetMutResult(op, eager, a, i,
                    Arena_try_get_mut(inners, arenas[a], idxs[i], MaxDepth))

GetMut(a, i) == GetMutOp("get_mut", TRUE, a, i)

TryGetMut(a, i) == GetMutOp("try_get_mut", FALSE, a, i)

\* *guard = v, through the DerefMut of an ArenaRefMut
deref_mut(h, ref, v) ==
    [h EXCEPT ![ref.inner] =
        SetCell(@, ref.row, ref.col, [Cell(@, ref.row, ref.col) EXCEPT !.value = v])]

Write(g, v) ==
    /\ Running
    /\ g \in Guards
    /\ g.kind = "excl"
    /\ inners' = deref_mut(inners, g.ref, v)
    /\ shadow' = [shadow EXCEPT ![g.idx] = v]
    /\ last' = NoCall
    /\ UNCHANGED <<ids, arenas, idxs, guards, forks, rcs>>

\* drop(guard)
DropGuard(g) ==
    /\ Running
    /\ g \in Guards
    /\ inners' = drop_ref(inners, g.ref, g.kind)
    /\ guards' = guards (-) SetToBag({g})
    /\ last' = NoCall
    /\ UNCHANGED <<ids, arenas, idxs, shadow, forks, rcs>>

\* idxs[j] = idxs[i].clone(): ArenaIdx is Copy
CopyIdx(i, j) ==
    /\ Running
    /\ i # j
    /\ idxs[i] # NoIdx
    /\ idxs[j] # idxs[i]
    /\ idxs' = [idxs EXCEPT ![j] = idxs[i]]
    /\ last' = NoCall
    /\ UNCHANGED <<ids, inners, arenas, guards, shadow, forks, rcs>>

Next ==
    \/ New
    \/ \E a \in ArenaHandles : Clone(a)
    \/ \E a, b \in ArenaHandles : Merge(a, b)
    \/ \E a \in ArenaHandles, v \in Values, i \in IdxVars : AppendValue(a, v, i)
    \/ \E a \in ArenaHandles, i \in IdxVars : Get(a, i)
    \/ \E a \in ArenaHandles, i \in IdxVars : TryGet(a, i)
    \/ \E a \in ArenaHandles, i \in IdxVars : GetMut(a, i)
    \/ \E a \in ArenaHandles, i \in IdxVars : TryGetMut(a, i)
    \/ \E g \in Guards, v \in Values : Write(g, v)
    \/ \E g \in Guards : DropGuard(g)
    \/ \E i, j \in IdxVars : CopyIdx(i, j)

Spec == Init /\ [][Next]_vars

SpecBucket == InitBucket /\ [][Next]_vars

\* ------------------------------------------------------- what is observed

\* the guards of one kind that are alive on one slot
Holding(kind, ref) == {g \in Guards : g.kind = kind /\ g.ref = ref}
NumHolding(kind, ref) ==
    BagCardinality([g \in Holding(kind, ref) |-> CopiesIn(g, guards)])

\* the guards of one kind that were obtained for one index
HeldBy(kind, idx) == {g \in Guards : g.kind = kind /\ g.idx = idx}

\* the arena can look the index up, and its offset is in bounds
Resolves(h, ar, idx) ==
    /\ ar.live
    /\ idx.arena \in DOMAIN ar.arenas
    /\ idx.offset < h[ar.arenas[idx.arena]].len
    /\ InRows(h[ar.arenas[idx.arena]], index(idx.offset))

\* the value the arena has under the index, -1 when it has none
Peek(h, ar, idx) ==
    IF Resolves(h, ar, idx)
    THEN Cell(h[ar.arenas[idx.arena]], index(idx.offset)[1], index(idx.offset)[2]).value
    ELSE -1

\* every slot of every storage
Slots ==
    UNION {{[inner |-> h, row |-> index(o)[1], col |-> index(o)[2]] :
                o \in 0 .. inners[h].len - 1} : h \in DOMAIN inners}

BorrowOf(ref) == Cell(inners[ref.inner], ref.row, ref.col).borrow

\* -------------------------------------------------------------- properties

\* C1: every slot is free (no live guard), or shared by n >= 1 live shared guards
\* and no exclusive one, or held by exactly one exclusive guard and no shared
\* one, counting the guards obtained through every arena; the borrow flag of the
\* slot says which.
C1_SharedXorExclusive ==
    /\ \A g \in Guards : g.ref \in Slots
    /\ \A ref \in Slots :
        \/ /\ BorrowOf(ref) = 0
           /\ NumHolding("shared", ref) = 0
           /\ NumHolding("excl", ref) = 0
        \/ /\ BorrowOf(ref) >= 1
           /\ NumHolding("shared", ref) = BorrowOf(ref)
           /\ NumHolding("excl", ref) = 0
        \/ /\ BorrowOf(ref) = -1
           /\ NumHolding("shared", ref) = 0
           /\ NumHolding("excl", ref) = 1

\* two shared guards on one slot, obtained through two arenas
C1_Witness ==
    \E g1, g2 \in Guards :
        /\ g1.kind = "shared" /\ g2.kind = "shared"
        /\ g1.ref = g2.ref
        /\ g1.via # g2.via
        /\ BorrowOf(g1.ref) = 2

\* C2: an index returned by append, looked up by any arena that has its
\* generation, yields the value appended (the value last written, once written
\* to), at every append position, the first slot of a new bucket included; the
\* look-up fails, with an error value, only while the slot is mutably borrowed.
C2_RoundTrip ==
    \A a \in Live : \A idx \in Minted :
        idx.arena \in DOMAIN arenas[a].arenas =>
            IF HeldBy("excl", idx) # {}
            THEN Arena_try_get(inners, arenas[a], idx).res = "err"
            ELSE /\ Arena_try_get(inners, arenas[a], idx).res = "ok"
                 /\ Arena_try_get(inners, arenas[a], idx).value = shadow[idx]

\* a get has yielded 1 for the first slot of bucket 1, to which 1 was appended
C2_Witness ==
    \E g \in Guards :
        /\ g.kind = "shared"
        /\ g.idx.offset = BASE
        /\ g.ref.row = 1 /\ g.ref.col = 0
        /\ shadow[g.idx] = 1
        /\ Cell(inners[g.ref.inner], g.ref.row, g.ref.col).value = 1

\* C3: a write through the guard of get_mut changes the value under the index
\* as get_mut left it, and the value under no other index of any arena; once the
\* guard is dropped, get on the arena yields the written value. The get_mut
\* that succeeds, which may copy the value to a new slot, changes no value
\* either. (A step that takes a guard is looked at as a get_mut, one that changes
\* a recorded value as a write, one that ends a guard as a drop.)
C3_Step ==
    /\ BagCardinality(guards') > BagCardinality(guards) =>
        \A a \in ArenaHandles : \A i \in IdxVars :
            GetMut(a, i) \/ TryGetMut(a, i) =>
                /\ \A b \in Live : \A idx \in Minted :
                       Peek(inners', arenas'[b], idx) = Peek(inners, arenas[b], idx)
                /\ Peek(inners', arenas'[a], idxs'[i]) = shadow[idxs[i]]
    /\ shadow' # shadow /\ guards' = guards =>
        \A g \in Guards : \A v \in Values :
            Write(g, v) =>
                \A a \in Live : \A idx \in Minted :
                    Peek(inners', arenas'[a], idx) =
                        IF idx = g.idx /\ Resolves(inners, arenas[a], idx) THEN v
                        ELSE Peek(inners, arenas[a], idx)
    /\ BagCardinality(guards') < BagCardinality(guards) =>
        \A g \in Guards :
            g.kind = "excl" /\ DropGuard(g) =>
                /\ Arena_try_get(inners', arenas'[g.via], g.idx).res = "ok"
                /\ Arena_try_get(inners', arenas'[g.via], g.idx).value = shadow[g.idx]

C3_MutationVisible == [][C3_Step]_vars

\* a get yields 1 for the index the caller kept of the last slot of bucket 0,
\* which held 0: 1 was written through a mutable guard, since dropped
C3_Witness ==
    \E g \in Guards :
        /\ g.kind = "shared"
        /\ g.idx = [arena |-> 0, offset |-> BASE - 1]
        /\ inners[1].len >= BASE
        /\ shadow[g.idx] = 1
        /\ Cell(inners[g.ref.inner], g.ref.row, g.ref.col).value = 1

\* C4: while an exclusive guard on an index is alive, try_get_mut and try_get of
\* that index through any arena that has its generation return an error value
\* (get_mut and get panic), and the failed call changes nothing: the caller's
\* index, the guard and the slot's borrow flag, which stays exclusive.
C4_ExclusiveBlocks ==
    \A a \in Live : \A idx \in Minted : \A g \in HeldBy("excl", idx) :
        idx.arena \in DOMAIN arenas[a].arenas =>
            /\ Arena_try_get_mut(inners, arenas[a], idx, MaxDepth).res = "err"
            /\ Arena_try_get_mut(inners, arenas[a], idx, MaxDepth).heap = inners
            /\ Arena_try_get_mut(inners, arenas[a], idx, MaxDepth).idx = idx
            /\ Arena_try_get(inners, arenas[a], idx).res = "err"
            /\ Arena_try_get(inners, arenas[a], idx).heap = inners
            /\ Unwrapped(TRUE, "err") = "panic"
            /\ g.ref \in Slots
            /\ BorrowOf(g.ref) = -1

\* a try_get_mut has just returned an error for an index whose guard is alive
C4_Witness ==
    /\ last.op = "try_get_mut"
    /\ last.res = "err"
    /\ \E g \in HeldBy("excl", last.idx) : BorrowOf(g.ref) = -1

\* C5, as amended: any number of gets of an index that an arena resolves succeed
\* while no exclusive guard is alive on it; when the index is of the arena's
\* current generation, get_mut fails while a shared guard is alive and succeeds
\* once no guard is; when it is of another generation and no exclusive guard is
\* alive, get_mut copies the value and succeeds, shared guards or not, if the
\* arena's lineage map has its current generation, and panics if not.
C5_SharedThenExclusive ==
    \A a \in Live : \A idx \in Minted :
        Resolves(inners, arenas[a], idx) =>
            /\ HeldBy("excl", idx) = {} =>
                   Arena_try_get(inners, arenas[a], idx).res = "ok"
            /\ idx.arena = arenas[a].id /\ HeldBy("shared", idx) # {} =>
                   Arena_try_get_mut(inners, arenas[a], idx, MaxDepth).res = "err"
            /\ idx.arena = arenas[a].id /\ HeldBy("shared", idx) = {}
                                        /\ HeldBy("excl", idx) = {} =>
                   Arena_try_get_mut(inners, arenas[a], idx, MaxDepth).res = "ok"
            /\ idx.arena # arenas[a].id /\ HeldBy("excl", idx) = {} =>
                   Arena_try_get_mut(inners, arenas[a], idx, MaxDepth).res =
                       IF arenas[a].id \in DOMAIN arenas[a].arenas THEN "ok" ELSE "panic"

\* two shared guards on an index of the current generation, and a try_get_mut of
\* it that has just failed
C5_Witness ==
    /\ last.op = "try_get_mut"
    /\ last.res = "err"
    /\ last.idx.arena = arenas[last.arena].id
    /\ \E g \in HeldBy("shared", last.idx) : BorrowOf(g.ref) = 2

\* C5 as stated: get_mut of any index the arena resolves fails while a shared
\* guard on it is alive
C5_AsStated ==
    \A a \in Live : \A idx \in Minted :
        Resolves(inners, arenas[a], idx) /\ HeldBy("shared", idx) # {} =>
            Arena_try_get_mut(inners, arenas[a], idx, MaxDepth).res # "ok"

\* the other arena of a fork
Sibling(f, x) == IF x = f.a THEN f.b ELSE f.a

\* what the sibling of x has under the indices minted before the fork is the same
\* after the step as before it
PreForkKept(f, x) ==
    \A idx \in Minted :
        idx.arena < f.at =>
            Peek(inners', arenas'[Sibling(f, x)], idx) = Peek(inners, arenas[Sibling(f, x)], idx)

\* C6: after a fork, get_mut on one sibling of an index minted before the fork,
\* and every write through the guard it returns, leave the value the other
\* sibling has under every index minted before the fork as it was.
C6_Step ==
    \A f \in forks : \A x \in {f.a, f.b} :
        /\ \A i \in IdxVars :
            /\ idxs[i].arena < f.at
            /\ GetMut(x, i) \/ TryGetMut(x, i)
            /\ last'.res # "panic"
            => PreForkKept(f, x)
        /\ \A g \in Guards : \A v \in Values :
            /\ g.via = x
            /\ g.born > f.at
            /\ g.from.arena < f.at
            /\ Write(g, v)
            => PreForkKept(f, x)

C6_ForkIsolation == [][C6_Step]_vars

\* after a fork, one sibling holds a mutable guard from get_mut of an index minted
\* before the fork and has written 1 through it, and the other sibling holds a
\* shared guard of the index as it was, under which the value is still 0
C6_Witness ==
    \E f \in forks : \E x \in {f.a, f.b} : \E g1, g2 \in Guards :
        /\ g1.kind = "excl" /\ g1.via = x /\ g1.born > f.at
        /\ g1.from.arena < f.at
        /\ g1.idx # g1.from
        /\ Cell(inners[g1.ref.inner], g1.ref.row, g1.ref.col).value = 1
        /\ g2.kind = "shared" /\ g2.via = Sibling(f, x) /\ g2.born > f.at
        /\ g2.idx = g1.from
        /\ Cell(inners[g2.ref.inner], g2.ref.row, g2.ref.col).value = 0

\* C7: the lineage map of merge(a, b) has the keys of a's and of b's, and every
\* index that a or b resolves is resolved by the merged arena with the same
\* result.
C7_Step ==
    \A a, b \in ArenaHandles :
        Merge(a, b) =>
            /\ DOMAIN arenas'[NextArena].arenas =
                   DOMAIN arenas[a].arenas \cup DOMAIN arenas[b].arenas
            /\ \A x \in {a, b} : \A idx \in Minted :
                   Resolves(inners, arenas[x], idx) =>
                       Arena_try_get(inners', arenas'[NextArena], idx) =
                           Arena_try_get(inners, arenas[x], idx)

C7_MergeResolves == [][C7_Step]_vars

\* the merge of two arenas that have no generation in common holds a guard from
\* get of an index of each one's current generation
C7_Witness ==
    \E a, b, c \in Live : \E g1, g2 \in Guards :
        /\ a # b /\ a # c /\ b # c
        /\ DOMAIN arenas[a].arenas \cap DOMAIN arenas[b].arenas = {}
        /\ DOMAIN arenas[c].arenas = DOMAIN arenas[a].arenas \cup DOMAIN arenas[b].arenas
        /\ arenas[c].id \notin DOMAIN arenas[c].arenas
        /\ g1.via = c /\ g1.kind = "shared" /\ g1.idx.arena = arenas[a].id
        /\ g2.via = c /\ g2.kind = "shared" /\ g2.idx.arena = arenas[b].id

\* C8: append succeeds on every arena, a merged one included, and returns an
\* index of the arena's current generation, at the offset that was the length of
\* that generation; get_mut of an index the arena resolves, with no guard alive
\* on it, succeeds too.
C8_AppendAlwaysSucceeds ==
    \A a \in Live :
        /\ \A v \in Values :
            /\ Arena_append(inners, arenas[a], v).res = "ok"
            /\ Arena_append(inners, arenas[a], v).idx.arena = arenas[a].id
            /\ arenas[a].id \in DOMAIN arenas[a].arenas
            /\ Arena_append(inners, arenas[a], v).idx.offset =
                   inners[arenas[a].arenas[arenas[a].id]].len
        /\ \A idx \in Minted :
            Resolves(inners, arenas[a], idx) /\ HeldBy("shared", idx) = {}
                                            /\ HeldBy("excl", idx) = {} =>
                Arena_try_get_mut(inners, arenas[a], idx, MaxDepth).res = "ok"

\* the length and the values of one storage
Contents(h, k) ==
    [len |-> h[k].len,
     values |-> [o \in 0 .. h[k].len - 1 |->
                    Cell(h[k], index(o)[1], index(o)[2]).value]]

\* the step is an operation on arena x, or through a guard obtained from it
ActsThrough(x) ==
    \/ \E v \in Values : \E i \in IdxVars : AppendValue(x, v, i)
    \/ \E i \in IdxVars : Get(x, i) \/ TryGet(x, i) \/ GetMut(x, i) \/ TryGetMut(x, i)
    \/ \E g \in Guards : g.via = x /\ (DropGuard(g) \/ \E v \in Values : Write(g, v))
    \/ \E b \in ArenaHandles : Merge(x, b) \/ Merge(b, x)
    \/ Clone(x)

\* C9: no operation on either sibling of a fork, a write through a mutable guard
\* obtained before the fork included, changes the length or a value of a
\* generation that existed at the fork, and both siblings go on resolving every
\* index into it.
C9_Step ==
    \A f \in forks :
        (ActsThrough(f.a) \/ ActsThrough(f.b)) /\ last'.res # "panic" =>
            \A gen \in DOMAIN arenas[f.a].arenas :
                gen < f.at =>
                    /\ Contents(inners', arenas[f.a].arenas[gen]) =
                           Contents(inners, arenas[f.a].arenas[gen])
                    /\ \A idx \in Minted : \A x \in {f.a, f.b} :
                           idx.arena = gen => Resolves(inners', arenas'[x], idx)

C9_OldGenerationsImmutable == [][C9_Step]_vars

\* C10: after a fork, append and get_mut on either sibling change no generation
\* that both siblings' lineage maps have.
C10_Step ==
    \A f \in forks : \A x \in {f.a, f.b} :
        /\ \/ \E v \in Values : \E i \in IdxVars : AppendValue(x, v, i)
           \/ \E i \in IdxVars : GetMut(x, i) \/ TryGetMut(x, i)
        /\ last'.res # "panic"
        => \A gen \in DOMAIN arenas[f.a].arenas \cap DOMAIN arenas[f.b].arenas :
               Contents(inners', arenas[f.a].arenas[gen]) =
                   Contents(inners, arenas[f.a].arenas[gen])

C10_NoSharedMutableGeneration == [][C10_Step]_vars

\* C11: the lineage maps of the two siblings of a fork have the same keys, right
\* after the fork and after any later fork of either sibling, so that each
\* resolves every index the other resolves.
C11_SharedLineageMap ==
    \A f \in forks :
        /\ DOMAIN arenas[f.a].arenas = DOMAIN arenas[f.b].arenas
        /\ \A idx \in Minted :
               Resolves(inners, arenas[f.a], idx) <=> Resolves(inners, arenas[f.b], idx)

\* C12: a call of append, try_get or try_get_mut that fails, by an error value or
\* by a panic, at whatever step, returns with every storage (borrow flags, values
\* and lengths) and the caller's index as they were at the call; a step that
\* records an error value changes nothing else: no lineage map, no current id,
\* no index, no guard.
C12_Inv ==
    \A a \in Live : \A idx \in Minted :
        /\ Arena_try_get(inners, arenas[a], idx).res # "ok" =>
               /\ Arena_try_get(inners, arenas[a], idx).heap = inners
               /\ Arena_try_get(inners, arenas[a], idx).idx = idx
        /\ Arena_try_get_mut(inners, arenas[a], idx, MaxDepth).res # "ok" =>
               /\ Arena_try_get_mut(inners, arenas[a], idx, MaxDepth).heap = inners
               /\ Arena_try_get_mut(inners, arenas[a], idx, MaxDepth).idx = idx
        /\ \A v \in Values :
               Arena_append(inners, arenas[a], v).res # "ok" =>
                   Arena_append(inners, arenas[a], v).heap = inners

C12_Step ==
    last'.res = "err" => UNCHANGED <<ids, inners, arenas, idxs, guards, shadow, forks, rcs>>

C12_FailedCallsChangeNothing == []C12_Inv /\ [][C12_Step]_vars

\* a try_get_mut of an index of another generation than the current one has just
\* failed at its read, the slot being held by an exclusive guard
C12_Witness ==
    /\ last.op = "try_get_mut"
    /\ last.res = "err"
    /\ last.why = "BorrowError"
    /\ last.idx.arena # arenas[last.arena].id
    /\ last.idx.arena \in DOMAIN arenas[last.arena].arenas
    /\ HeldBy("excl", last.idx) # {}

\* every value an index can have within the bounds, minted or not
AnyIdx == {[arena |-> g, offset |-> o] : g \in 0 .. MaxIds, o \in 0 .. MaxSlots}

UnknownGeneration(ar, idx) == idx.arena \notin DOMAIN ar.arenas

IndexOutOfBounds(h, ar, idx) ==
    /\ idx.arena \in DOMAIN ar.arenas
    /\ idx.offset >= h[ar.arenas[idx.arena]].len

\* C13: try_get and try_get_mut panic exactly when the generation of the index
\* is no key of the arena's lineage map or its offset is not below the length of
\* that generation; the look-up is checked first, the bounds next; in every other
\* case the call succeeds or returns a borrow error.
C13_FatalExactly ==
    \A a \in Live : \A idx \in AnyIdx :
        /\ Arena_try_get(inners, arenas[a], idx).res = "panic" <=>
               UnknownGeneration(arenas[a], idx) \/ IndexOutOfBounds(inners, arenas[a], idx)
        /\ Arena_try_get_mut(inners, arenas[a], idx, MaxDepth).res = "panic" <=>
               UnknownGeneration(arenas[a], idx) \/ IndexOutOfBounds(inners, arenas[a], idx)
        /\ UnknownGeneration(arenas[a], idx) =>
               /\ Arena_try_get(inners, arenas[a], idx).why = "Invalid arena_idx"
               /\ Arena_try_get_mut(inners, arenas[a], idx, MaxDepth).why = "Invalid arena_idx"
        /\ IndexOutOfBounds(inners, arenas[a], idx) =>
               /\ Arena_try_get(inners, arenas[a], idx).why = "Index out of bounds"
               /\ Arena_try_get_mut(inners, arenas[a], idx, MaxDepth).why = "Index out of bounds"
        /\ Arena_try_get(inners, arenas[a], idx).res \in {"ok", "err", "panic"}
        /\ Arena_try_get_mut(inners, arenas[a], idx, MaxDepth).res \in {"ok", "err", "panic"}

\* --------------------------------------------------- one storage that grows

\* let i = a.append(len % (MaxVal + 1)) on the first arena, up to MaxLen slots
GrowAppend ==
    /\ Running
    /\ inners[1].len < MaxLen
    /\ AppendDone(1, inners[1].len % (MaxVal + 1), 1,
                  Arena_append(inners, arenas[1], inners[1].len % (MaxVal + 1)))

NextGrow == GrowAppend

SpecGrow == Init /\ [][NextGrow]_vars

BucketSize(k) == BASE * Pow2(k)
BucketStart(k) == BASE * (Pow2(k) - 1)

\* C14: index maps every offset i to (k, c) with 0 <= c < BASE * 2^k and
\* i = BASE * (2^k - 1) + c; it is injective, goes through every slot of a bucket
\* before the first of the next as i grows, and gives (0, i) for i in 0 .. 31,
\* (1, 0) for 32 and (2, 0) for 96.
C14_Index ==
    /\ \A i \in 0 .. inners[1].len :
        /\ index(i)[1] \in 0 .. NUM_ALLOCATIONS - 1
        /\ index(i)[2] >= 0
        /\ index(i)[2] < BucketSize(index(i)[1])
        /\ i = BucketStart(index(i)[1]) + index(i)[2]
        /\ \A j \in 0 .. inners[1].len : index(i) = index(j) => i = j
        /\ index(i + 1) = IF index(i)[2] + 1 < BucketSize(index(i)[1])
                          THEN <<index(i)[1], index(i)[2] + 1>>
                          ELSE <<index(i)[1] + 1, 0>>
        /\ i <= 31 => index(i) = <<0, i>>
        /\ i = 32 => index(i) = <<1, 0>>
        /\ i = 96 => index(i) = <<2, 0>>
    /\ \A k \in 0 .. MaxRow :
        /\ index(BucketStart(k)) = <<k, 0>>
        /\ index(BucketStart(k + 1) - 1) = <<k, BucketSize(k) - 1>>

\* the append at offset 96 has returned, and its value is the first of bucket 2
C14_Witness ==
    /\ idxs[1] = [arena |-> 0, offset |-> 96]
    /\ inners[1].len = 97
    /\ Len(inners[1].rows[0].buf) = 32
    /\ Len(inners[1].rows[1].buf) = 64
    /\ Len(inners[1].rows[2].buf) = 1

\* the slots of row k of a storage
Row(inner, k) == inner.rows[k].buf

\* C15: in every storage, bucket k holds at most BASE * 2^k slots and never more
\* than the capacity it was allocated with, the buckets are filled in order, and
\* slot i is at position index(i) with the value last put there; at every step
\* len does not decrease, a bucket that holds slots keeps its capacity (it is
\* not allocated again) and its slots, which an append leaves as they are, and
\* a bucket is allocated at the step that appends its slot 0, and at no other.
C15_Inv ==
    \A s \in DOMAIN inners :
        /\ \A k \in 0 .. MaxRow :
            /\ Len(Row(inners[s], k)) <= inners[s].rows[k].cap
            /\ Len(Row(inners[s], k)) <= BucketSize(k)
            /\ Row(inners[s], k) # <<>> =>
                   /\ inners[s].rows[k].cap = BucketSize(k)
                   /\ inners[s].len = BucketStart(k) + Len(Row(inners[s], k))
                      \/ /\ Len(Row(inners[s], k)) = BucketSize(k)
                         /\ inners[s].len > BucketStart(k + 1) - 1
            /\ Row(inners[s], k) = <<>> => inners[s].len <= BucketStart(k)
        /\ \A k \in MaxRow + 1 .. NUM_ALLOCATIONS - 1 : inners[s].rows[k] = Vec_new
        /\ \A o \in 0 .. inners[s].len - 1 : InRows(inners[s], index(o))
        /\ \A idx \in Minted :
               arenas[1].live /\ idx.arena = arenas[1].id /\ arenas[1].arenas[idx.arena] = s =>
                   Peek(inners, arenas[1], idx) = shadow[idx]

C15_Step ==
    last'.res # "panic" =>
        \A s \in DOMAIN inners :
            /\ inners'[s].len >= inners[s].len
            /\ \A k \in 0 .. MaxRow :
                /\ Row(inners[s], k) # <<>> =>
                       /\ inners'[s].rows[k].cap = inners[s].rows[k].cap
                       /\ Len(Row(inners'[s], k)) >= Len(Row(inners[s], k))
                       /\ inners'[s].len > inners[s].len =>
                              \A c \in DOMAIN Row(inners[s], k) :
                                  Row(inners'[s], k)[c] = Row(inners[s], k)[c]
                /\ inners'[s].rows[k].cap # inners[s].rows[k].cap <=>
                       /\ inners[s].len = BucketStart(k)
                       /\ inners'[s].len = inners[s].len + 1

C15_AddressStability == []C15_Inv /\ [][C15_Step]_vars

\* bucket 1 is full, at the capacity it was allocated with, bucket 2 has been
\* started, and the first and the last slot of bucket 1 hold what was appended
C15_Witness ==
    /\ Len(Row(inners[1], 1)) = 64
    /\ inners[1].rows[1].cap = 64
    /\ Len(Row(inners[1], 2)) >= 1
    /\ inners[1].rows[2].cap = 128
    /\ Cell(inners[1], 1, 0).value = 32 % (MaxVal + 1)
    /\ Cell(inners[1], 1, 63).value = 95 % (MaxVal + 1)
    /\ Cell(inners[1], 0, 1).value = 1

\* ------------------------------------------------- arenas that are dropped

\* drop(a): no guard obtained from a is alive, since a guard borrows its arena
DropArena(a) ==
    /\ Running
    /\ arenas[a].live
    /\ \A g \in Guards : g.via # a
    /\ rcs' = Rcs_drop(rcs, arenas[a].arenas)
    /\ arenas' = [arenas EXCEPT ![a] = DroppedArena]
    /\ forks' = {f \in forks : f.a # a /\ f.b # a}
    /\ last' = NoCall
    /\ UNCHANGED <<ids, inners, idxs, guards, shadow>>

NextDrop ==
    \/ New
    \/ \E a \in ArenaHandles : Clone(a)
    \/ \E a, b \in ArenaHandles : Merge(a, b)
    \/ \E a \in ArenaHandles : \E v \in Values : \E i \in IdxVars : AppendValue(a, v, i)
    \/ \E a \in ArenaHandles : \E i \in IdxVars : Get(a, i)
    \/ \E g \in Guards : DropGuard(g)
    \/ \E a \in ArenaHandles : DropArena(a)

SpecDrop == Init /\ [][NextDrop]_vars

\* the live arenas whose lineage map has the storage s
HoldersOf(s) == {a \in Live : Held(arenas[a].arenas, s)}

\* C16: the strong count of every storage is the number of live arenas whose
\* lineage map has it; while there is one, none of its values has been released,
\* and the storage holds one slot for every index minted into its generation;
\* when there is none left, its values have been released, once.
C16_ReleasedOnce ==
    \A s \in DOMAIN inners :
        /\ rcs[s].strong = Cardinality(HoldersOf(s))
        /\ HoldersOf(s) # {} => rcs[s].dropped = 0
        /\ HoldersOf(s) = {} => rcs[s].dropped = 1
        /\ \A a \in HoldersOf(s) : \A gen \in DOMAIN arenas[a].arenas :
               arenas[a].arenas[gen] = s =>
                   /\ Cardinality({idx \in Minted : idx.arena = gen}) = inners[s].len
                   /\ \A idx \in Minted : idx.arena = gen => Resolves(inners, arenas[a], idx)

\* two values were appended to an arena and released with it, while a storage
\* that a dropped arena shared with a live one still holds its value
C16_Witness ==
    \E s, t \in DOMAIN inners :
        /\ inners[s].len >= 1
        /\ rcs[s].strong = 0 /\ rcs[s].dropped = 1
        /\ inners[t].len >= 1
        /\ rcs[t].strong = 1 /\ rcs[t].dropped = 0
        /\ Cardinality({a \in ArenaHandles : arenas[a].live}) = 1

\* the storage of the current generation of an arena whose map has it
Current(ar) == ar.arenas[ar.id]

\* the slot the promotion of a value appends to the current generation
Promoted(h, ar) ==
    [inner |-> Current(ar), row |-> index(h[Current(ar)].len)[1],
     col |-> index(h[Current(ar)].len)[2]]

\* what try_get_mut returns for a promotion, and the heap it leaves
PromotionFrame(h, ar, idx, r) ==
    /\ r.res = "ok"
    /\ ar.id \in DOMAIN ar.arenas
    /\ r.heap[Current(ar)].len = h[Current(ar)].len + 1
    /\ r.idx = [arena |-> ar.id, offset |-> h[Current(ar)].len]
    /\ r.ref = Promoted(h, ar)
    /\ Cell(r.heap[r.ref.inner], r.ref.row, r.ref.col) =
           [value |-> Peek(h, ar, idx), borrow |-> -1]
    /\ Cell(r.heap[ar.arenas[idx.arena]], index(idx.offset)[1], index(idx.offset)[2]) =
           Cell(h[ar.arenas[idx.arena]], index(idx.offset)[1], index(idx.offset)[2])
    /\ \A s \in DOMAIN h : s # Current(ar) => r.heap[s] = h[s]

\* C17: try_get_mut on an arena of an index that it resolves, of another
\* generation than its current one, whose slot is not exclusively borrowed:
\* the current generation has grown by one slot, the caller's index is (current
\* id, its previous length), the guard is on that slot, which holds the value of
\* the old slot, and the old slot and every other generation are as they were.
C17_Promotion ==
    \A a \in Live : \A idx \in Minted :
        /\ Resolves(inners, arenas[a], idx)
        /\ idx.arena # arenas[a].id
        /\ HeldBy("excl", idx) = {}
        => PromotionFrame(inners, arenas[a], idx,
                          Arena_try_get_mut(inners, arenas[a], idx, MaxDepth))

\* C18: two arenas whose lineage maps have the same generation id have the same
\* storage under it, and so the same value under every index of that
\* generation; at every step every arena keeps every key of its map, bound to
\* the storage it was bound to.
C18_Inv ==
    \A a, b \in Live :
        /\ \A k \in DOMAIN arenas[a].arenas :
               /\ arenas[a].arenas[k] \in DOMAIN inners
               /\ k \in DOMAIN arenas[b].arenas =>
                      arenas[a].arenas[k] = arenas[b].arenas[k]
        /\ \A idx \in Minted :
               idx.arena \in DOMAIN arenas[a].arenas \cap DOMAIN arenas[b].arenas =>
                   /\ Resolves(inners, arenas[a], idx)
                   /\ Peek(inners, arenas[a], idx) = Peek(inners, arenas[b], idx)

C18_Step ==
    last'.res # "panic" =>
        \A a \in Live :
            /\ arenas'[a].live
            /\ \A k \in DOMAIN arenas[a].arenas :
                   /\ k \in DOMAIN arenas'[a].arenas
                   /\ arenas'[a].arenas[k] = arenas[a].arenas[k]

C18_MapsOnlyGrow == []C18_Inv /\ [][C18_Step]_vars

\* an arena whose map has grown by a fork and an arena made by a merge both read,
\* under one index, the 1 that was put there
C18_Witness ==
    \E g1, g2 \in Guards :
        /\ g1.kind = "shared" /\ g2.kind = "shared"
        /\ g1.idx = g2.idx /\ g1.ref = g2.ref
        /\ arenas[g1.via].id \in DOMAIN arenas[g1.via].arenas
        /\ Cardinality(DOMAIN arenas[g1.via].arenas) >= 3
        /\ arenas[g2.via].id \notin DOMAIN arenas[g2.via].arenas
        /\ Peek(inners, arenas[g1.via], g1.idx) = 1
        /\ Peek(inners, arenas[g2.via], g2.idx) = 1

\* the arenas that a step has given a current id: the new ones, and those whose
\* id it has changed
Renamed == {a \in ArenaHandles : arenas'[a].live /\ arenas'[a].id # arenas[a].id}

\* C19: no two live arenas have the same current id, and every id in use is
\* below the counter; at every step the counter does not decrease, the current
\* ids the step gives are exactly the values from the counter before the step up
\* to the counter after it, each given once, and an id that an arena loses is
\* the current id of no arena afterwards.
C19_Inv ==
    /\ \A a, b \in Live : a # b => arenas[a].id # arenas[b].id
    /\ \A a \in Live :
        /\ arenas[a].id < ids
        /\ \A k \in DOMAIN arenas[a].arenas : k >= 0 /\ k < ids

C19_Step ==
    /\ ids' >= ids
    /\ {arenas'[a].id : a \in Renamed} = ids .. ids' - 1
    /\ Cardinality(Renamed) = ids' - ids
    /\ \A a \in Live : \A b \in ArenaHandles :
           arenas'[a].id # arenas[a].id /\ arenas'[b].live =>
               arenas'[b].id # arenas[a].id

C19_FreshIds == []C19_Inv /\ [][C19_Step]_vars

\* an arena has forked twice: five ids were minted, the three live arenas have
\* three of them, and the two it has lost are the current id of none
C19_Witness ==
    /\ ids = 5
    /\ Cardinality(Live) = 3
    /\ \E a \in Live : arenas[a].id = 3 /\ DOMAIN arenas[a].arenas = 0 .. 4
    /\ \A a \in Live : arenas[a].id \notin {0, 1}

\* the result r of try_get_mut(idx) on the heap h is that of a call that has
\* called itself once: the index was of another generation, one slot was
\* appended to the current generation and to no other, the index returned is
\* that of this slot, and the second call has borrowed it
Recursed(h, ar, idx, r) ==
    /\ idx.arena # ar.id
    /\ ar.id \in DOMAIN ar.arenas
    /\ r.res = "ok"
    /\ r.idx = [arena |-> ar.id, offset |-> h[ar.arenas[ar.id]].len]
    /\ r.ref.inner = ar.arenas[ar.id]
    /\ \A s \in DOMAIN h :
           r.heap[s].len = h[s].len + (IF s = ar.arenas[ar.id] THEN 1 ELSE 0)

\* the result r is that of a call that has not called itself: nothing was appended
NotRecursed(h, r) ==
    /\ r.calls = 1
    /\ \A s \in DOMAIN h : r.heap[s].len = h[s].len

\* the result r of try_get_mut(idx) shows at most one recursive call
AtMostOnce(h, ar, idx, r) ==
    /\ r.res # "diverges"
    /\ r.calls \in {1, 2}
    /\ idx.arena = ar.id => NotRecursed(h, r)
    /\ r.calls = 2 => Recursed(h, ar, idx, r)
    /\ r.calls = 1 => NotRecursed(h, r)
    /\ idx.arena # ar.id /\ r.calls = 1 => r.res \in {"err", "panic"}

\* C20: try_get_mut of any index on any live arena ends after at most two
\* invocations; with an index of the current generation there is one, and
\* nothing is appended; with an index of another generation either the call
\* fails before it calls itself, and nothing is appended, or it calls itself
\* once, with the index of the one slot it has appended to the current
\* generation, and that call borrows the slot and succeeds.
C20_OneRecursiveCall ==
    \A a \in Live : \A idx \in AnyIdx \cup Minted :
        AtMostOnce(inners, arenas[a], idx,
                   Arena_try_get_mut(inners, arenas[a], idx, MaxDepth))

\* an exclusive guard was obtained through an index of a former generation,
\* which the call has rewritten to the current one, and another index of a
\* former generation is there whose try_get_mut would call itself
C20_Witness ==
    /\ \E g \in Guards :
        /\ g.kind = "excl"
        /\ arenas[g.via].live
        /\ g.from.arena # g.idx.arena
        /\ g.idx.arena = arenas[g.via].id
        /\ g.ref.inner = arenas[g.via].arenas[g.idx.arena]
    /\ \E a \in Live : \E idx \in Minted :
        /\ idx.arena # arenas[a].id
        /\ Arena_try_get_mut(inners, arenas[a], idx, MaxDepth).calls = 2

====
